---- MODULE Spec2Model ----
(***************************************************************************)
(* State-machine model of medibuddy-backend, src/main.py: the flat-JSON    *)
(* FastAPI backend.  The four JSON documents under data/ are the state;    *)
(* every POST handler is an action.  The handlers are `async def` bodies   *)
(* without any await, so one handler runs to completion on the event loop  *)
(* before the next starts; register_token is split at the point where the  *)
(* token has been written and the notification has not yet been attempted. *)
(* main.py starts no background task: there is no dispatch loop action.    *)
(***************************************************************************)
EXTENDS Integers, Sequences, FiniteSets, TLC

(* ---- bounds of the model ------------------------------------------------*)
MaxTime == 1        \* the wall clock runs over 0..MaxTime (epoch ms, scaled)
MaxReq  == 3        \* number of POST requests served in one run

(* ---- JSON / Python values ----------------------------------------------*)
NONE  == "<None>"   \* Python None: the key is missing from the payload
EMPTY == ""         \* the empty string

Phones    == {"p1", "p2"}
TokenVals == {"t1", "t2"}
Medicines == {"m1"}

ReminderPhones == {"p1"}

PhoneInputs == {NONE, EMPTY} \cup Phones
TokenInputs == {NONE, EMPTY} \cup TokenVals

\* integers a caller supplies: one the clock reaches, one it never reaches
Stamps == {1, MaxTime + 2}

\* payload.get("timestamp") / payload.get("rating"): a JSON value that is
\* absent, the empty string, an integer or a string that is no number
NumInputs ==
    {[k |-> "none", n |-> 0], [k |-> "empty", n |-> 0], [k |-> "badstr", n |-> 0]}
    \cup [k : {"int"}, n : Stamps]

ReviewRatings == {r \in NumInputs : r.k \in {"none", "badstr"}}

\* Python truthiness of a payload string: None and "" are falsy
Truthy(x) == x \notin {NONE, EMPTY}

\* `x or d` on a payload string
OrElse(x, d) == IF Truthy(x) THEN x ELSE d

\* `payload.get(key) or 0`: None, "" and the integer 0 are falsy
NumOrZero(v) ==
    IF v.k \in {"none", "empty"} THEN [k |-> "int", n |-> 0] ELSE v

\* int(...) raises ValueError on a string that is not a number
IntRaises(v) == NumOrZero(v).k = "badstr"

\* int(payload.get(key) or 0)
IntOf(v) == NumOrZero(v).n

(* ---- storage helpers ---------------------------------------------------*)
\* _load_json on an existing file: the parsed document, or `default` when
\* opening or parsing the file raises (readOk = FALSE)
LoadJson(stored, default, readOk) == IF readOk THEN stored ELSE default

EmptyDict == [p \in {} |-> NONE]

\* d[key] = value on a Python dict
DictSet(d, key, value) ==
    [p \in (DOMAIN d) \cup {key} |-> IF p = key THEN value ELSE d[p]]

\* d.get(key, {}).get(field)
DictGetField(d, key) == IF key \in DOMAIN d THEN d[key].notes ELSE NONE

VARIABLES
    reminders,   \* data/reminders.json: a list of reminder objects
    reviews,     \* data/reviews.json: a list of review objects
    profiles,    \* data/profiles.json: phone -> profile object
    tokens,      \* data/tokens.json: phone -> device token
    messaging,   \* TRUE iff firebase_admin.messaging was initialised
    sent,        \* every messaging.send attempted, in order
    now,         \* wall clock
    nextId,      \* number of ids drawn from _new_id so far
    pc,          \* position of the handler in progress
    req,         \* payload of the request in progress / last served
    resp,        \* response of the last completed request
    lastReg,     \* history: phone -> token of its latest accepted registration
    nreq         \* number of requests served

vars == <<reminders, reviews, profiles, tokens, messaging, sent, now,
          nextId, pc, req, resp, lastReg, nreq>>

NoNum  == [k |-> "none", n |-> 0]
NoReq  == [op |-> "none", phone |-> NONE, token |-> NONE, num |-> NoNum]
NoResp == [op |-> "none", status |-> 0, detail |-> "", id |-> 0]

Ok(op, id)          == [op |-> op, status |-> 200, detail |-> "", id |-> id]
HttpError(op, s, d) == [op |-> op, status |-> s, detail |-> d, id |-> 0]

\* lines 16-17, 40-43, 48-82: folders and the four documents exist and are
\* empty; messaging is set or stays None depending on the service account
Init ==
    /\ reminders = <<>>
    /\ reviews = <<>>
    /\ profiles = EmptyDict
    /\ tokens = EmptyDict
    /\ messaging \in BOOLEAN
    /\ sent = <<>>
    /\ now = 0
    /\ nextId = 0
    /\ pc = "idle"
    /\ req = NoReq
    /\ resp = NoResp
    /\ lastReg = EmptyDict
    /\ nreq = 0

\* the wall clock advances
Tick ==
    /\ now < MaxTime
    /\ now' = now + 1
    /\ UNCHANGED <<reminders, reviews, profiles, tokens, messaging, sent,
                   nextId, pc, req, resp, lastReg, nreq>>

\* uuid.uuid4().hex: a value not returned before
_new_id == nextId + 1

\* a reminder object that is born already taken
NewReminderTaken(id, medicine, ts, phone, clock) ==
    [id |-> id, medicine |-> medicine, timestamp |-> IntOf(ts),
     phone |-> phone, day |-> 1, created_at |-> clock, taken |-> TRUE]

\* the reminder object built by create_reminder
NewReminder(id, medicine, ts, phone, clock) ==
    [id |-> id, medicine |-> medicine, timestamp |-> IntOf(ts),
     phone |-> phone, day |-> 1, created_at |-> clock, taken |-> FALSE]

\* an append that rewrites the flags of the reminders already stored
AppendReminderResetting(data, reminder) ==
    Append([i \in 1..Len(data) |-> [data[i] EXCEPT !.taken = ~data[i].taken]],
           reminder)

\* data.append(reminder)
AppendReminder(data, reminder) == Append(data, reminder)

\* POST /api/reminders
create_reminder(medicine, ts, phone, readOk) ==
    /\ pc = "idle"
    /\ nreq < MaxReq
    /\ nreq' = nreq + 1
    /\ req' = [op |-> "create_reminder", phone |-> phone, token |-> NONE,
               num |-> ts]
    /\ LET data == LoadJson(reminders, <<>>, readOk)
           id   == _new_id
       IN  /\ nextId' = id
           /\ IF IntRaises(ts)
              THEN /\ resp' = HttpError("create_reminder", 500,
                                        "Internal Server Error")
                   /\ UNCHANGED reminders
              ELSE /\ reminders' =
                        AppendReminder(data,
                            NewReminder(id, medicine, ts, phone, now))
                   /\ resp' = Ok("create_reminder", id)
    /\ UNCHANGED <<reviews, profiles, tokens, messaging, sent, now, pc,
                   lastReg>>

\* the review object built by post_review
NewReview(id, name, text, rating, phone, clock) ==
    [id |-> id, name |-> OrElse(name, "Anonymous"), text |-> OrElse(text, EMPTY),
     rating |-> IntOf(rating), phone |-> phone, created_at |-> clock]

\* POST /api/reviews
post_review(name, text, rating, phone, readOk) ==
    /\ pc = "idle"
    /\ nreq < MaxReq
    /\ nreq' = nreq + 1
    /\ req' = [op |-> "post_review", phone |-> phone, token |-> NONE,
               num |-> rating]
    /\ LET data == LoadJson(reviews, <<>>, readOk)
           id   == _new_id
       IN  /\ nextId' = id
           /\ IF IntRaises(rating)
              THEN /\ resp' = HttpError("post_review", 500,
                                        "Internal Server Error")
                   /\ UNCHANGED reviews
              ELSE /\ reviews' =
                        Append(data,
                            NewReview(id, name, text, rating, phone, now))
                   /\ resp' = Ok("post_review", id)
    /\ UNCHANGED <<reminders, profiles, tokens, messaging, sent, now, pc,
                   lastReg>>

\* `if not phone` of save_profile
ProfileRequestValid(phone) == Truthy(phone)

\* the profile object built by save_profile
NewProfile(stored, phone, name, email, notes, clock) ==
    [name |-> name, email |-> email,
     notes |-> OrElse(notes, DictGetField(stored, phone)),
     updated_at |-> clock]

\* POST /api/profile
save_profile(phone, name, email, notes, readOk) ==
    /\ pc = "idle"
    /\ nreq < MaxReq
    /\ nreq' = nreq + 1
    /\ req' = [op |-> "save_profile", phone |-> phone, token |-> NONE,
               num |-> NoNum]
    /\ LET stored == LoadJson(profiles, EmptyDict, readOk)
       IN  IF ~ProfileRequestValid(phone)
           THEN /\ resp' = HttpError("save_profile", 400, "phone required")
                /\ UNCHANGED profiles
           ELSE /\ profiles' =
                     DictSet(stored, phone,
                         NewProfile(stored, phone, name, email, notes, now))
                /\ resp' = Ok("save_profile", 0)
    /\ UNCHANGED <<reminders, reviews, tokens, messaging, sent, now, nextId,
                   pc, lastReg>>

\* a check that forgets the token
TokenRequestValidPhoneOnly(phone, token) == Truthy(phone)

\* `if not phone or not token` of register_token
TokenRequestValid(phone, token) == Truthy(phone) /\ Truthy(token)

\* POST /api/token/register, lines 182-188: load, validate, store the token
register_token(phone, token, readOk) ==
    /\ pc = "idle"
    /\ nreq < MaxReq
    /\ nreq' = nreq + 1
    /\ req' = [op |-> "register_token", phone |-> phone, token |-> token,
               num |-> NoNum]
    /\ LET stored == LoadJson(tokens, EmptyDict, readOk)
       IN  IF ~TokenRequestValid(phone, token)
           THEN /\ resp' = HttpError("register_token", 400,
                                     "phone and token required")
                /\ UNCHANGED <<tokens, lastReg, pc>>
           ELSE /\ tokens' = DictSet(stored, phone, token)
                /\ lastReg' = DictSet(lastReg, phone, token)
                /\ pc' = "notify"
                /\ UNCHANGED resp
    /\ UNCHANGED <<reminders, reviews, profiles, messaging, sent, now,
                   nextId>>

\* the test notification of register_token
TestMessage(token, delivered) ==
    [token |-> token, title |-> "MediBuddy",
     body |-> <<"Notifications enabled for this device.">>,
     delivered |-> delivered]

\* the sends register_token attempts: none when messaging is None
NotifyAttempts(available, token, delivered) ==
    IF available THEN <<TestMessage(token, delivered)>> ELSE <<>>

\* a reply that lets a failed send escape as an error
RegisterResultPropagating(available, delivered) ==
    IF available /\ ~delivered
    THEN HttpError("register_token", 500, "Internal Server Error")
    ELSE Ok("register_token", 0)

\* the response of register_token after the best-effort send
RegisterResult(available, delivered) == Ok("register_token", 0)

\* POST /api/token/register, lines 190-202: best-effort send, then reply;
\* delivered = FALSE is messaging.send raising
register_token_notify(delivered) ==
    /\ pc = "notify"
    /\ sent' = sent \o NotifyAttempts(messaging, req.token, delivered)
    /\ resp' = RegisterResult(messaging, delivered)
    /\ pc' = "idle"
    /\ UNCHANGED <<reminders, reviews, profiles, tokens, messaging, now,
                   nextId, req, lastReg, nreq>>

Next ==
    \/ Tick
    \/ \E m \in Medicines, ts \in NumInputs, p \in ReminderPhones,
          readOk \in BOOLEAN : create_reminder(m, ts, p, readOk)
    \/ \E rating \in ReviewRatings, readOk \in BOOLEAN :
          post_review(NONE, EMPTY, rating, NONE, readOk)
    \/ \E p \in PhoneInputs, notes \in {NONE, "note"}, readOk \in BOOLEAN :
          save_profile(p, "name", NONE, notes, readOk)
    \/ \E p \in PhoneInputs, t \in TokenInputs, readOk \in BOOLEAN :
          register_token(p, t, readOk)
    \/ \E delivered \in BOOLEAN : register_token_notify(delivered)

Spec == Init /\ [][Next]_vars

\* the clock keeps advancing; requests arrive only if clients send them
FairSpec == Spec /\ WF_vars(Tick)

(* ---- vocabulary of the claims -------------------------------------------*)
Ids == 1..(MaxReq + 1)

Falsy == {NONE, EMPTY}

\* the stored reminder with this id is due and not yet marked
DuePending(id) ==
    \E i \in DOMAIN reminders :
        /\ reminders[i].id = id
        /\ reminders[i].timestamp <= now
        /\ ~reminders[i].taken

\* the stored reminder with this id is marked
Marked(id) ==
    \E i \in DOMAIN reminders : reminders[i].id = id /\ reminders[i].taken

\* the sends that are the reminder push of reminder r: fixed title, a body
\* that contains the medicine name
ReminderSends(r) ==
    {k \in DOMAIN sent :
        /\ sent[k].title = "Medicine Reminder"
        /\ \E w \in DOMAIN sent[k].body : sent[k].body[w] = r.medicine}

\* C1: every stored reminder that is due and not marked is eventually marked
C1_DueEventuallyTaken ==
    \A id \in Ids : DuePending(id) ~> Marked(id)

\* C2: the taken flag of a reminder that stays in the store is never changed
\* by create_reminder, register_token, save_profile or post_review, so a flag
\* that was true is never seen false again
C2_FlagStable ==
    [][\A i \in DOMAIN reminders : \A j \in DOMAIN reminders' :
          reminders[i].id = reminders'[j].id
              => reminders'[j].taken = reminders[i].taken]_vars

\* a stored reminder has lived through a later create_reminder and two
\* further requests
C2_Witness ==
    /\ Len(reminders) >= 2
    /\ nreq = MaxReq
    /\ pc = "idle"

\* C3: a reminder whose timestamp is still in the future is not marked and
\* has no reminder push recorded; a marked reminder has a timestamp the clock
\* has reached
C3_FutureUntouched ==
    \A i \in DOMAIN reminders :
        /\ reminders[i].taken => reminders[i].timestamp <= now
        /\ reminders[i].timestamp > now =>
              /\ ~reminders[i].taken
              /\ ReminderSends(reminders[i]) = {}

\* a reminder still in the future after the clock has advanced, whose owner
\* has a token and whose notifier has already recorded a send
C3_Witness ==
    /\ now >= 1
    /\ messaging
    /\ sent # <<>>
    /\ \E i \in DOMAIN reminders :
          /\ reminders[i].timestamp > now
          /\ reminders[i].phone \in DOMAIN tokens

\* C4: fire-and-forget: a due reminder is marked whatever the delivery
\* outcome, here when its owner has no token or no notifier is available
C4_MarkedWithoutDelivery ==
    \A id \in Ids :
        (/\ DuePending(id)
         /\ \/ ~messaging
            \/ \A i \in DOMAIN reminders :
                  reminders[i].id = id => reminders[i].phone \notin DOMAIN tokens)
        ~> Marked(id)

\* C5: a reminder that is due while its owner has a registered token and the
\* notifier is available gets exactly one reminder push
C5_ExactlyOnePush ==
    \A id \in Ids :
        (/\ messaging
         /\ \E i \in DOMAIN reminders :
               /\ reminders[i].id = id
               /\ reminders[i].timestamp <= now
               /\ reminders[i].phone \in DOMAIN tokens)
        ~> (\E i \in DOMAIN reminders :
               /\ reminders[i].id = id
               /\ Cardinality(ReminderSends(reminders[i])) = 1)

\* C6: no step removes a stored reminder, changes its id, medicine, timestamp
\* or phone, or clears its flag
C6_NoLostUpdate ==
    [][\A i \in DOMAIN reminders : \E j \in DOMAIN reminders' :
          /\ reminders'[j].id = reminders[i].id
          /\ reminders'[j].medicine = reminders[i].medicine
          /\ reminders'[j].timestamp = reminders[i].timestamp
          /\ reminders'[j].phone = reminders[i].phone
          /\ (reminders[i].taken => reminders'[j].taken)]_vars

\* C7: the token stored for a phone is the token of the latest accepted
\* register_token call for that phone
C7_LastWriteWins ==
    \A p \in DOMAIN lastReg : p \in DOMAIN tokens /\ tokens[p] = lastReg[p]

\* C8: register_token without a phone or without a token answers 400 and
\* leaves tokens.json and the notifier alone; save_profile without a phone
\* answers 400 and leaves profiles.json alone
C8_RejectedLeavesStore ==
    [][/\ (/\ nreq' = nreq + 1
           /\ req'.op = "register_token"
           /\ (req'.phone \in Falsy \/ req'.token \in Falsy))
          => /\ resp' = [op |-> "register_token", status |-> 400,
                         detail |-> "phone and token required", id |-> 0]
             /\ tokens' = tokens
             /\ sent' = sent
             /\ pc' = "idle"
       /\ (/\ nreq' = nreq + 1
           /\ req'.op = "save_profile"
           /\ req'.phone \in Falsy)
          => /\ resp' = [op |-> "save_profile", status |-> 400,
                         detail |-> "phone required", id |-> 0]
             /\ profiles' = profiles]_vars

\* a register_token call was rejected while tokens were stored
C8_Witness ==
    /\ resp.op = "register_token"
    /\ resp.status = 400
    /\ req.op = "register_token"
    /\ req.phone \notin Falsy
    /\ req.token \in Falsy
    /\ DOMAIN tokens # {}

\* C9: register_token has stored the token before it attempts the send, it
\* attempts at most one, and it answers ok with the token stored whatever
\* the send did
C9_BestEffortNotify ==
    [][/\ pc' = "notify"
          => /\ sent' = sent
             /\ req'.phone \in DOMAIN tokens'
             /\ tokens'[req'.phone] = req'.token
       /\ (pc = "notify" /\ pc' = "idle")
          => /\ resp'.op = "register_token"
             /\ resp'.status = 200
             /\ req.phone \in DOMAIN tokens'
             /\ tokens'[req.phone] = req.token
             /\ Len(sent') <= Len(sent) + 1
       /\ pc' = pc => sent' = sent]_vars

\* register_token has answered after a send that raised
C9_Witness ==
    /\ pc = "idle"
    /\ req.op = "register_token"
    /\ resp.op = "register_token"
    /\ sent # <<>>
    /\ ~sent[Len(sent)].delivered
    /\ sent[Len(sent)].token = req.token

\* C10: a successful create_reminder leaves the stored reminders in place and
\* in order and appends one reminder, not taken, with a new id and the
\* supplied timestamp (0 when missing or empty); the other documents stay
C10_AppendsExactlyOne ==
    [][(/\ nreq' = nreq + 1
        /\ req'.op = "create_reminder"
        /\ resp'.status = 200)
       => /\ Len(reminders') = Len(reminders) + 1
          /\ SubSeq(reminders', 1, Len(reminders)) = reminders
          /\ ~reminders'[Len(reminders')].taken
          /\ \A i \in DOMAIN reminders :
                reminders[i].id # reminders'[Len(reminders')].id
          /\ reminders'[Len(reminders')].timestamp =
                (IF req'.num.k = "int" THEN req'.num.n ELSE 0)
          /\ tokens' = tokens
          /\ profiles' = profiles
          /\ reviews' = reviews]_vars
====
